---------------------------- MODULE Spec2Model ----------------------------
(***************************************************************************)
(* png_to_bw_bmp.py: load prism_logo.png, convert it to grayscale,         *)
(* threshold it at 128 into a 1-bit image and save it as                   *)
(* prism_logo_bw.bmp.                                                      *)
(*                                                                         *)
(* The script is a straight line of Pillow calls.  A run is modelled as a  *)
(* process walking through them; the two files live in a small file        *)
(* system shared by the runs.  Files are sequences of bytes; an open file  *)
(* has a position of its own, as under POSIX.                              *)
(***************************************************************************)
EXTENDS Integers, Sequences, FiniteSets, TLC

(***************************************************************************)
(* Bounds of the model.                                                    *)
(***************************************************************************)
\* An input image of the pipeline has at most MaxPixels pixels (w * h).
MaxPixels == 2
\* A grayscale buffer handed to the threshold alone has at most this many.
PointMaxPixels == 4
\* Widths and heights tried by the resize computation.
ResizeMaxW == 12
ResizeMaxH == 5

(***************************************************************************)
(* Constants of the program.                                               *)
(***************************************************************************)
\* lambda x: 0 if x < 128 else 255
Threshold == 128
White == 255
\* bw.resize((300, ...))
TargetWidth == 300
\* Pillow's BMP writer: 14-byte file header, 40-byte info header, and the
\* default 96 dpi as pixels per metre, int(96 * 39.3701 + 0.5).
FileHeaderLen == 14
InfoHeaderLen == 40
PixelsPerMetre == 3780
\* Status of a Python process that ends on an unhandled exception.
ExitUnhandled == 1

Procs == {1, 2}

(***************************************************************************)
(* Values.                                                                 *)
(***************************************************************************)
Max(a, b) == IF a >= b THEN a ELSE b

RECURSIVE Pow2(_)
Pow2(n) == IF n = 0 THEN 1 ELSE 2 * Pow2(n - 1)

\* The content of the input path.  kind is "absent", "unreadable", "notpng"
\* (no PNG signature), "truncated" (a PNG header, its pixel data cut short)
\* or "png"; a PNG carries the image it encodes, pixels in row-major order.
NoFile(k) == [kind |-> k, mode |-> "", w |-> 0, h |-> 0, px |-> <<>>]
Absent == NoFile("absent")

Shapes(n) == {s \in (1..n) \X (1..n) : s[1] * s[2] <= n}

PngFiles(mode, vals, n) ==
    UNION { { [kind |-> "png", mode |-> mode, w |-> s[1], h |-> s[2], px |-> b] :
                b \in [1..(s[1] * s[2]) -> vals] } : s \in Shapes(n) }

\* Image.open reads the header only: a truncated file still shows its mode
\* and size.
Truncated == [kind |-> "truncated", mode |-> "L", w |-> 1, h |-> 1, px |-> <<>>]

\* An image in memory.
NoImage == [mode |-> "", w |-> 0, h |-> 0, px |-> <<>>]
Image(m, w, h, px) == [mode |-> m, w |-> w, h |-> h, px |-> px]

(***************************************************************************)
(* img.convert("L"): ITU-R 601-2 luma, in Pillow's fixed point.            *)
(***************************************************************************)
L24(c) == c[1] * 19595 + c[2] * 38470 + c[3] * 7471 + 32768

Luma(mode, p) == IF mode = "L" THEN p ELSE L24(p) \div 65536

ConvertLTransposed(im) ==
    Image("L", im.h, im.w, [i \in 1..Len(im.px) |-> Luma(im.mode, im.px[i])])

ConvertL(im) ==
    Image("L", im.w, im.h, [i \in 1..Len(im.px) |-> Luma(im.mode, im.px[i])])

(***************************************************************************)
(* .point(lambda x: 0 if x < 128 else 255, '1'): the lambda is tabulated   *)
(* over 0..255, each entry clipped to a byte, and every pixel is looked up *)
(* in the table.  A mode "1" image stores one byte per pixel.              *)
(***************************************************************************)
LambdaOffByOne(x) == IF x <= Threshold THEN 0 ELSE White

LambdaWhiteOne(x) == IF x < Threshold THEN 0 ELSE 1

Lambda(x) == IF x < Threshold THEN 0 ELSE White

Clip8(v) == IF v < 0 THEN 0 ELSE IF v > 255 THEN 255 ELSE v

Lut == [x \in 0..255 |-> Clip8(Lambda(x))]

Point(im) == Image("1", im.w, im.h, [i \in 1..Len(im.px) |-> Lut[im.px[i]]])


(***************************************************************************)
(* bw.save("prism_logo_bw.bmp"): Pillow's BMP writer for a mode "1" image. *)
(* Little-endian fields, a two-entry palette, then the rows bottom-up,     *)
(* eight pixels to a byte with the leftmost pixel in the top bit, each row *)
(* padded to a multiple of four bytes.                                     *)
(***************************************************************************)
O16(n) == << n % 256, (n \div 256) % 256 >>

O32(n) == << n % 256, (n \div 256) % 256, (n \div 65536) % 256,
             (n \div 16777216) % 256 >>

Stride(w) == ((((w + 7) \div 8) + 3) \div 4) * 4

PaletteLen == 2 * 4

DataOffset == FileHeaderLen + InfoHeaderLen + PaletteLen

RECURSIVE PackBits(_, _, _, _)
\* Byte k (from 0) of the row whose first pixel is px[base + 1]: bit j of it.
PackBits(px, base, w, j) ==
    IF j > 7 THEN 0
    ELSE (IF (j + 1 <= w /\ px[base + j + 1] # 0) THEN Pow2(7 - j) ELSE 0)
         + PackBits(px, base, w, j + 1)

\* Row r (from 1, top to bottom) as Stride(w) bytes.
PackRow(im, r) ==
    [k \in 1..Stride(im.w) |->
        IF (k - 1) * 8 < im.w
        THEN PackBits(im.px, (r - 1) * im.w + (k - 1) * 8, im.w - (k - 1) * 8, 0)
        ELSE 0]

RECURSIVE RowsBottomUp(_, _)
RowsBottomUp(im, r) ==
    IF r = 0 THEN <<>> ELSE PackRow(im, r) \o RowsBottomUp(im, r - 1)

BmpData(im) == RowsBottomUp(im, im.h)

BmpHeader(im) ==
    LET image == Stride(im.w) * im.h
    IN  << 66, 77 >> \o O32(DataOffset + image) \o O32(0) \o O32(DataOffset)
        \o O32(InfoHeaderLen) \o O32(im.w) \o O32(im.h) \o O16(1) \o O16(1)
        \o O32(0) \o O32(image)
        \o O32(PixelsPerMetre) \o O32(PixelsPerMetre) \o O32(2) \o O32(2)
        \o << 0, 0, 0, 0 >> \o << 255, 255, 255, 255 >>

BmpFile(im) == BmpHeader(im) \o BmpData(im)

(***************************************************************************)
(* The file system.  A write at a position past the end leaves a hole of   *)
(* zero bytes; a write never shortens the file.                            *)
(***************************************************************************)
NoOutput == [exists |-> FALSE, data |-> <<>>]
File(d) == [exists |-> TRUE, data |-> d]

\* O_APPEND: every write goes to the end, whatever the position.
WriteAppend(d, pos, bytes) == d \o bytes

WriteAt(d, pos, bytes) ==
    [i \in 1..Max(Len(d), pos + Len(bytes)) |->
        IF i > pos /\ i <= pos + Len(bytes) THEN bytes[i - pos]
        ELSE IF i <= Len(d) THEN d[i] ELSE 0]


(***************************************************************************)
(* State.                                                                  *)
(***************************************************************************)
VARIABLES
    inFile,       \* content of prism_logo.png
    outFile,      \* content of prism_logo_bw.bmp
    outReadOnly,  \* the output path cannot be opened for writing
    pc,           \* pc[p]: the call run p is about to make
    img,          \* img[p]: the opened input (header read, pixels still on file)
    gray,         \* gray[p]: img.convert("L")
    bw,           \* bw[p]: the thresholded image
    pos,          \* pos[p]: position of run p's handle on the output file
    status,       \* status[p]: exit status of run p once pc[p] = "exit"
    steps,        \* steps[p]: the pipeline steps run p has begun, in order
    failed,       \* failed[p]: the step of run p that raised, or "none"
    seen,         \* seen[p]: the two paths as run p found them
    result,       \* result[p]: the output file as run p left it
    again,        \* the threshold applied to a thresholded image
    resized       \* the size the resize step asks for

vars == << inFile, outFile, outReadOnly, pc, img, gray, bw, pos, status, steps,
           failed, seen, result, again, resized >>

Running == 0 - 1

Lums == {Threshold - 1, Threshold}

Colors == { << 255, 0, 0 >>, << 0, 255, 0 >> }

Inputs ==
    PngFiles("L", Lums, MaxPixels) \cup PngFiles("RGB", Colors, 1)
    \cup {Absent, NoFile("unreadable"), NoFile("notpng"), Truncated}

\* Longer than every file the bounded pipeline writes.
Junk == [i \in 1..(DataOffset + Stride(1) * MaxPixels + 1) |-> 7]

PriorOutputs == {NoOutput, File(<<>>), File(Junk)}

NotSeen == [input |-> Absent, output |-> NoOutput, readOnly |-> FALSE]

InitRuns(start) ==
    /\ pc = [p \in Procs |-> start]
    /\ img = [p \in Procs |-> Absent]
    /\ gray = [p \in Procs |-> NoImage]
    /\ bw = [p \in Procs |-> NoImage]
    /\ pos = [p \in Procs |-> 0]
    /\ status = [p \in Procs |-> Running]
    /\ steps = [p \in Procs |-> <<>>]
    /\ failed = [p \in Procs |-> "none"]
    /\ seen = [p \in Procs |-> NotSeen]
    /\ result = [p \in Procs |-> NoOutput]
    /\ again = NoImage
    /\ resized = << 0, 0 >>

Init ==
    /\ inFile \in Inputs
    /\ outFile \in PriorOutputs
    /\ outReadOnly \in BOOLEAN
    /\ InitRuns("open")

(***************************************************************************)
(* A run.  An exception is never caught: it ends the process with status 1 *)
(* at the call that raised it.                                             *)
(***************************************************************************)
Begin(p, step) == steps' = [steps EXCEPT ![p] = Append(@, step)]

\* The exception caught and dropped: the process ends normally.
RaiseSwallowed(p, step) ==
    /\ pc' = [pc EXCEPT ![p] = "exit"]
    /\ status' = [status EXCEPT ![p] = 0]
    /\ failed' = [failed EXCEPT ![p] = step]
    /\ result' = [result EXCEPT ![p] = outFile']

Raise(p, step) ==
    /\ pc' = [pc EXCEPT ![p] = "exit"]
    /\ status' = [status EXCEPT ![p] = ExitUnhandled]
    /\ failed' = [failed EXCEPT ![p] = step]
    /\ result' = [result EXCEPT ![p] = outFile']

\* img = Image.open("prism_logo.png")
Open(p) ==
    /\ pc[p] = "open"
    /\ inFile.kind \in {"png", "truncated"}
    /\ Begin(p, "load")
    /\ img' = [img EXCEPT ![p] = inFile]
    /\ seen' = [seen EXCEPT ![p] = [input |-> inFile, output |-> outFile,
                                    readOnly |-> outReadOnly]]
    /\ pc' = [pc EXCEPT ![p] = "convert"]
    /\ UNCHANGED << inFile, outFile, outReadOnly, gray, bw, pos, status, failed,
                    result, again, resized >>

\* The output opened for writing before the input is loaded.
OpenFailOutputCreated(p) ==
    /\ pc[p] = "open"
    /\ inFile.kind \in {"absent", "unreadable", "notpng"}
    /\ Begin(p, "load")
    /\ seen' = [seen EXCEPT ![p] = [input |-> inFile, output |-> outFile,
                                    readOnly |-> outReadOnly]]
    /\ outFile' = File(<<>>)
    /\ UNCHANGED << inFile, outReadOnly, img, gray, bw, pos, again, resized >>
    /\ Raise(p, "load")

\* FileNotFoundError, PermissionError or UnidentifiedImageError.
OpenFail(p) ==
    /\ pc[p] = "open"
    /\ inFile.kind \in {"absent", "unreadable", "notpng"}
    /\ Begin(p, "load")
    /\ seen' = [seen EXCEPT ![p] = [input |-> inFile, output |-> outFile,
                                    readOnly |-> outReadOnly]]
    /\ UNCHANGED << inFile, outFile, outReadOnly, img, gray, bw, pos, again,
                    resized >>
    /\ Raise(p, "load")

\* img.convert("L"): decodes the pixel data, then maps it to luminance.
Convert(p) ==
    /\ pc[p] = "convert"
    /\ img[p].kind = "png"
    /\ Begin(p, "convert")
    /\ gray' = [gray EXCEPT ![p] = ConvertL(img[p])]
    /\ pc' = [pc EXCEPT ![p] = "point"]
    /\ UNCHANGED << inFile, outFile, outReadOnly, img, bw, pos, status, failed,
                    seen, result, again, resized >>

\* OSError: image file is truncated.
ConvertFail(p) ==
    /\ pc[p] = "convert"
    /\ img[p].kind = "truncated"
    /\ Begin(p, "convert")
    /\ UNCHANGED << inFile, outFile, outReadOnly, img, gray, bw, pos, seen,
                    again, resized >>
    /\ Raise(p, "convert")

\* bw = (...).point(lambda x: 0 if x < 128 else 255, '1')
Binarize(p) ==
    /\ pc[p] = "point"
    /\ Begin(p, "threshold")
    /\ bw' = [bw EXCEPT ![p] = Point(gray[p])]
    /\ pc' = [pc EXCEPT ![p] = "save"]
    /\ UNCHANGED << inFile, outFile, outReadOnly, img, gray, pos, status, failed,
                    seen, result, again, resized >>

\* Opened "r+b": the old content stays.
CreatedKeepsContent(f) == File(f.data)

\* What open(filename, "w+b") leaves of the file.
Created(f) == File(<<>>)

\* The image saved under the input's name.
SaveOpenInputPath(p) ==
    /\ pc[p] = "save"
    /\ ~outReadOnly
    /\ Begin(p, "write")
    /\ inFile' = NoFile("notpng")
    /\ pos' = [pos EXCEPT ![p] = 0]
    /\ pc' = [pc EXCEPT ![p] = "save_header"]
    /\ UNCHANGED << outFile, outReadOnly, img, gray, bw, status, failed, seen,
                    result, again, resized >>

\* bw.save("prism_logo_bw.bmp"): the file is created or truncated ...
SaveOpen(p) ==
    /\ pc[p] = "save"
    /\ ~outReadOnly
    /\ Begin(p, "write")
    /\ outFile' = Created(outFile)
    /\ pos' = [pos EXCEPT ![p] = 0]
    /\ pc' = [pc EXCEPT ![p] = "save_header"]
    /\ UNCHANGED << inFile, outReadOnly, img, gray, bw, status, failed, seen,
                    result, again, resized >>

\* The save tried again after a PermissionError.
SaveOpenFailRetry(p) ==
    /\ pc[p] = "save"
    /\ outReadOnly
    /\ Begin(p, "write")
    /\ UNCHANGED << inFile, outFile, outReadOnly, pc, img, gray, bw, pos, status,
                    failed, seen, result, again, resized >>

\* ... or PermissionError, the file untouched.
SaveOpenFail(p) ==
    /\ pc[p] = "save"
    /\ outReadOnly
    /\ Begin(p, "write")
    /\ UNCHANGED << inFile, outFile, outReadOnly, img, gray, bw, pos, seen,
                    again, resized >>
    /\ Raise(p, "write")

\* ... the headers and the palette go out in one flush ...
SaveHeader(p) ==
    /\ pc[p] = "save_header"
    /\ outFile' = File(WriteAt(outFile.data, pos[p], BmpHeader(bw[p])))
    /\ pos' = [pos EXCEPT ![p] = @ + Len(BmpHeader(bw[p]))]
    /\ pc' = [pc EXCEPT ![p] = "save_data"]
    /\ UNCHANGED << inFile, outReadOnly, img, gray, bw, status, steps, failed,
                    seen, result, again, resized >>

\* ... then the encoder writes the rows and the file is closed.
SaveData(p) ==
    /\ pc[p] = "save_data"
    /\ outFile' = File(WriteAt(outFile.data, pos[p], BmpData(bw[p])))
    /\ pos' = [pos EXCEPT ![p] = @ + Len(BmpData(bw[p]))]
    /\ pc' = [pc EXCEPT ![p] = "exit"]
    /\ status' = [status EXCEPT ![p] = 0]
    /\ result' = [result EXCEPT ![p] = outFile']
    /\ UNCHANGED << inFile, outReadOnly, img, gray, bw, steps, failed, seen,
                    again, resized >>

\* OSError from a write (no space left): what was written stays.
SaveWriteFail(p) ==
    /\ pc[p] \in {"save_header", "save_data"}
    /\ UNCHANGED << inFile, outFile, outReadOnly, img, gray, bw, pos, steps,
                    seen, again, resized >>
    /\ Raise(p, "write")

Run(p) ==
    \/ Open(p)
    \/ OpenFail(p)
    \/ Convert(p)
    \/ ConvertFail(p)
    \/ Binarize(p)
    \/ SaveOpen(p)
    \/ SaveOpenFail(p)
    \/ SaveHeader(p)
    \/ SaveData(p)
    \/ SaveWriteFail(p)

(***************************************************************************)
(* The world around the runs: somebody replaces the input, removes or      *)
(* overwrites the output, changes its permissions.                         *)
(***************************************************************************)
EnvReplaceInput(files) ==
    /\ inFile' \in files \ {inFile}
    /\ UNCHANGED << outFile, outReadOnly, pc, img, gray, bw, pos, status, steps,
                    failed, seen, result, again, resized >>

EnvSetOutput ==
    /\ outFile' \in PriorOutputs \ {outFile}
    /\ UNCHANGED << inFile, outReadOnly, pc, img, gray, bw, pos, status, steps,
                    failed, seen, result, again, resized >>

EnvChmod ==
    /\ outReadOnly' = ~outReadOnly
    /\ UNCHANGED << inFile, outFile, pc, img, gray, bw, pos, status, steps,
                    failed, seen, result, again, resized >>

(***************************************************************************)
(* Spec: two runs one after the other, the world changing between them.    *)
(***************************************************************************)
Turn(p) == p = 1 \/ pc[1] = "exit"

Between == pc[1] = "exit" /\ pc[2] = "open"

Next ==
    \/ \E p \in Procs : Turn(p) /\ Run(p)
    \/ Between /\ EnvReplaceInput(Inputs)
    \/ Between /\ EnvSetOutput
    \/ Between /\ EnvChmod

Spec == Init /\ [][Next]_vars

(***************************************************************************)
(* SpecConc: two runs at once on the same two paths.  Nothing orders their *)
(* steps, and the input may be replaced while they run (an opened input    *)
(* keeps the content it was opened with).                                  *)
(***************************************************************************)
ConcInputs == PngFiles("L", {White}, MaxPixels) \cup {Absent, Truncated}

InitConc ==
    /\ inFile \in ConcInputs
    /\ outFile \in {NoOutput, File(Junk)}
    /\ outReadOnly \in BOOLEAN
    /\ InitRuns("open")

NextConc ==
    \/ \E p \in Procs : Run(p)
    \/ EnvReplaceInput(ConcInputs)

SpecConc == InitConc /\ [][NextConc]_vars

(***************************************************************************)
(* SpecPoint: the threshold alone, on every grayscale buffer of the bound, *)
(* and then once more on its own result.                                   *)
(***************************************************************************)
PointLums == {0, 10, Threshold - 1, Threshold, 200, White}

GrayBuffers ==
    { Image("L", f.w, f.h, f.px) :
        f \in PngFiles("L", PointLums, PointMaxPixels) \cup PngFiles("L", 0..255, 1) }

InitPoint ==
    /\ inFile = Absent
    /\ outFile = NoOutput
    /\ outReadOnly = FALSE
    /\ pc = [p \in Procs |-> IF p = 1 THEN "point" ELSE "exit"]
    /\ img = [p \in Procs |-> Absent]
    /\ \E g \in GrayBuffers : gray = [p \in Procs |-> IF p = 1 THEN g ELSE NoImage]
    /\ bw = [p \in Procs |-> NoImage]
    /\ pos = [p \in Procs |-> 0]
    /\ status = [p \in Procs |-> Running]
    /\ steps = [p \in Procs |-> <<>>]
    /\ failed = [p \in Procs |-> "none"]
    /\ seen = [p \in Procs |-> NotSeen]
    /\ result = [p \in Procs |-> NoOutput]
    /\ again = NoImage
    /\ resized = << 0, 0 >>

\* bw.point(lambda x: 0 if x < 128 else 255, '1')
BinarizeAgain(p) ==
    /\ pc[p] = "save"
    /\ again = NoImage
    /\ again' = Point(bw[p])
    /\ UNCHANGED << inFile, outFile, outReadOnly, pc, img, gray, bw, pos, status,
                    steps, failed, seen, result, resized >>

NextPoint ==
    \/ Binarize(1)
    \/ BinarizeAgain(1)

SpecPoint == InitPoint /\ [][NextPoint]_vars

(***************************************************************************)
(* SpecResize: the resize line enabled, after the threshold.  Only the     *)
(* size it asks for is modelled, not the resampled pixels.                 *)
(***************************************************************************)
\* round(n / d), halves to the even neighbour as Python rounds.
RoundDiv(n, d) ==
    LET q == n \div d
        r == n % d
    IN  IF 2 * r < d THEN q
        ELSE IF 2 * r > d THEN q + 1
        ELSE IF q % 2 = 0 THEN q ELSE q + 1

ResizeSizeRounded(im) == << TargetWidth, RoundDiv(im.h * TargetWidth, im.w) >>

\* (300, int(bw.height * 300 / bw.width)): int() drops the fraction.
ResizeSize(im) == << TargetWidth, (im.h * TargetWidth) \div im.w >>

InitResize ==
    /\ inFile = Absent
    /\ outFile = NoOutput
    /\ outReadOnly = FALSE
    /\ pc = [p \in Procs |-> IF p = 1 THEN "resize" ELSE "exit"]
    /\ img = [p \in Procs |-> Absent]
    /\ gray = [p \in Procs |-> NoImage]
    /\ \E w \in 1..ResizeMaxW, h \in 1..ResizeMaxH :
          bw = [p \in Procs |->
                  IF p = 1 THEN Image("1", w, h, [i \in 1..(w * h) |-> White])
                  ELSE NoImage]
    /\ pos = [p \in Procs |-> 0]
    /\ status = [p \in Procs |-> Running]
    /\ steps = [p \in Procs |-> <<>>]
    /\ failed = [p \in Procs |-> "none"]
    /\ seen = [p \in Procs |-> NotSeen]
    /\ result = [p \in Procs |-> NoOutput]
    /\ again = NoImage
    /\ resized = << 0, 0 >>

\* bw = bw.resize((300, int(bw.height * 300 / bw.width)), Image.LANCZOS)
Resize(p) ==
    /\ pc[p] = "resize"
    /\ resized' = ResizeSize(bw[p])
    /\ pc' = [pc EXCEPT ![p] = "save"]
    /\ UNCHANGED << inFile, outFile, outReadOnly, img, gray, bw, pos, status,
                    steps, failed, seen, result, again >>

NextResize == Resize(1)

SpecResize == InitResize /\ [][NextResize]_vars

(***************************************************************************)
(* Properties.                                                             *)
(***************************************************************************)
Finished(p) == pc[p] = "exit"

Order == << "load", "convert", "threshold", "write" >>

\* The little-endian 32-bit field at byte offset off of a file.
U32At(d, off) ==
    d[off + 1] + 256 * d[off + 2] + 65536 * d[off + 3] + 16777216 * d[off + 4]

\* C1 (SpecPoint): every pixel of the thresholded image is 0 or 255, and it is
\* 0 exactly when the grayscale pixel at the same position is below 128; so
\* [10, 200, 127, 128] gives [0, 255, 0, 255] and an all-255 buffer stays
\* all-255.
C1_ThresholdAt128 ==
    bw[1] # NoImage =>
        /\ Len(bw[1].px) = Len(gray[1].px)
        /\ \A i \in 1..Len(gray[1].px) :
              /\ bw[1].px[i] \in {0, 255}
              /\ (bw[1].px[i] = 0) <=> (gray[1].px[i] < 128)
        /\ (gray[1].px = << 10, 200, 127, 128 >>
              => bw[1].px = << 0, 255, 0, 255 >>)
        /\ ((\A i \in 1..Len(gray[1].px) : gray[1].px[i] = 255)
              => (\A i \in 1..Len(bw[1].px) : bw[1].px[i] = 255))

C1_Scenario ==
    /\ gray[1].w = 2 /\ gray[1].h = 2
    /\ gray[1].px = << 10, 200, 127, 128 >>
    /\ bw[1].px = << 0, 255, 0, 255 >>

\* C5 (SpecPoint): the threshold applied to a thresholded image gives that
\* image back.
C5_Idempotent == again # NoImage => again = bw[1]

C5_AppliedTwice ==
    /\ again # NoImage
    /\ \E i, j \in 1..Len(again.px) : again.px[i] = 0 /\ again.px[j] = 255

\* C2 (Spec): the grayscale image, the thresholded image and the BMP a
\* successful run leaves all have the width and height of the input image.
C2_SameSize ==
    \A p \in Procs :
        /\ gray[p] # NoImage =>
              gray[p].w = seen[p].input.w /\ gray[p].h = seen[p].input.h
        /\ bw[p] # NoImage =>
              /\ bw[p].w = seen[p].input.w /\ bw[p].h = seen[p].input.h
              /\ Len(bw[p].px) = seen[p].input.w * seen[p].input.h
        /\ (Finished(p) /\ status[p] = 0) =>
              /\ U32At(result[p].data, 18) = seen[p].input.w
              /\ U32At(result[p].data, 22) = seen[p].input.h

C2_WideImageSaved ==
    /\ Finished(1) /\ status[1] = 0
    /\ seen[1].input.w = 2 /\ seen[1].input.h = 1
    /\ U32At(result[1].data, 18) = 2 /\ U32At(result[1].data, 22) = 1

\* C3 (Spec): a run that found the input absent ends with a nonzero status
\* and leaves the output path as it found it, missing or not.
C3_AbsentInput ==
    \A p \in Procs :
        (Finished(p) /\ seen[p].input.kind = "absent") =>
            status[p] # 0 /\ result[p] = seen[p].output

C3_AbsentInputExistingOutput ==
    /\ Finished(1) /\ ~Finished(2)
    /\ seen[1].input.kind = "absent"
    /\ seen[1].output = File(Junk)
    /\ outFile = File(Junk)
    /\ status[1] = 1

\* C4 (Spec): two successful runs that loaded the same input leave the same
\* output file, whatever each found at the output path.
C4_SameInputSameOutput ==
    \A p, q \in Procs :
        (/\ Finished(p) /\ status[p] = 0
         /\ Finished(q) /\ status[q] = 0
         /\ seen[p].input = seen[q].input)
        => result[p] = result[q]

C4_DifferentPriorOutput ==
    /\ Finished(1) /\ status[1] = 0
    /\ Finished(2) /\ status[2] = 0
    /\ seen[1].input = seen[2].input
    /\ seen[1].output = File(Junk)
    /\ seen[2].output = NoOutput
    /\ result[1] = result[2]

\* C6 (Spec): a finished run has status 0 exactly when no step raised, and
\* then it ran all four steps and left the complete BMP; a missing,
\* unreadable or non-PNG input stops it at the load, a truncated PNG at the
\* conversion, an unwritable output at the write, each with a nonzero status
\* and with the failing step the last one begun.
C6_ExitStatus ==
    \A p \in Procs :
        Finished(p) =>
            /\ (status[p] = 0) <=> (failed[p] = "none")
            /\ status[p] = 0 =>
                  /\ steps[p] = Order
                  /\ bw[p] = Point(ConvertL(seen[p].input))
                  /\ result[p] = File(BmpFile(bw[p]))
            /\ failed[p] # "none" =>
                  /\ status[p] # 0
                  /\ steps[p] # <<>>
                  /\ steps[p][Len(steps[p])] = failed[p]
            /\ seen[p].input.kind \in {"absent", "unreadable", "notpng"} =>
                  status[p] # 0 /\ steps[p] = << "load" >>
            /\ seen[p].input.kind = "truncated" =>
                  status[p] # 0 /\ steps[p] = << "load", "convert" >>
            /\ (seen[p].input.kind = "png" /\ seen[p].readOnly) =>
                  status[p] # 0 /\ steps[p] = Order /\ result[p] = seen[p].output

C6_OneOfEach ==
    /\ Finished(1) /\ status[1] = 0
    /\ Finished(2) /\ status[2] = 1
    /\ failed[2] = "write" /\ seen[2].readOnly

\* C8 (Spec): a run begins its steps in the order load, convert, threshold,
\* write, one at a time and none twice; a run changes the output file only
\* with the thresholded image of its input in hand; a finished run does
\* nothing more.
C8_StepOrder ==
    [][\A p \in Procs :
          /\ steps'[p] # steps[p] =>
                /\ Len(steps'[p]) <= Len(Order)
                /\ steps'[p] = SubSeq(Order, 1, Len(steps[p]) + 1)
          /\ (pc'[p] # pc[p] /\ outFile' # outFile) =>
                /\ SubSeq(steps'[p], 1, 3) = << "load", "convert", "threshold" >>
                /\ bw[p] = Point(ConvertL(img[p]))
          /\ Finished(p) => (pc'[p] = pc[p] /\ steps'[p] = steps[p])
      ]_vars

C8_FullAndCutShort ==
    /\ Finished(1) /\ steps[1] = Order /\ status[1] = 0
    /\ Finished(2) /\ steps[2] = << "load", "convert" >>

\* C10 (Spec): no step of a run changes the input file, and a step of a run
\* that changes the output file is a step of that run's save.
C10_InputUntouched ==
    [][pc' # pc =>
          /\ inFile' = inFile
          /\ outFile' # outFile =>
                \E p \in Procs :
                    /\ pc'[p] # pc[p]
                    /\ pc[p] \in {"save", "save_header", "save_data"}
      ]_vars

C10_SavedAndFailed ==
    /\ Finished(1) /\ status[1] = 0
    /\ result[1] # seen[1].output
    /\ Finished(2) /\ failed[2] = "convert"
    /\ seen[2].output = result[1] /\ outFile = result[1]
    /\ inFile = seen[2].input

\* C9 as claimed (SpecResize): the height asked for is
\* round(height * 300 / width).
C9_RoundedHeight ==
    pc[1] = "save" =>
        resized = << 300, RoundDiv(bw[1].h * 300, bw[1].w) >>

\* C9 (SpecResize): the width asked for is 300 and the height is
\* height * 300 / width with its fraction dropped: the largest integer H
\* with H * width <= height * 300.
C9_TruncatedHeight ==
    pc[1] = "save" =>
        /\ resized[1] = 300
        /\ resized[2] * bw[1].w <= bw[1].h * 300
        /\ bw[1].h * 300 < (resized[2] + 1) * bw[1].w

C9_FractionDropped ==
    /\ pc[1] = "save"
    /\ bw[1].w = 7 /\ bw[1].h = 1
    /\ resized = << 300, 42 >>

\* C7 as claimed (SpecConc): once both runs have saved, the output file is
\* the complete BMP of one of them.
C7_LastWriterWins ==
    (\A p \in Procs : Finished(p) /\ status[p] = 0) =>
        \E p \in Procs : outFile = File(BmpFile(bw[p]))

\* C7 (SpecConc): once both runs have saved, and both saved the same image,
\* the output file is the complete BMP of that image.
C7_SameImageWins ==
    ((\A p \in Procs : Finished(p) /\ status[p] = 0) /\ bw[1] = bw[2]) =>
        outFile = File(BmpFile(bw[1]))

\* Both runs saved the same image, and the file was not yet whole when the
\* first of them finished: the other had truncated it in between.
C7_Interleaved ==
    /\ \A p \in Procs : Finished(p) /\ status[p] = 0
    /\ bw[1] = bw[2]
    /\ result[1] # result[2]
    /\ outFile = File(BmpFile(bw[1]))

=============================================================================
